---------------------------- MODULE Spec2Model ----------------------------
(***************************************************************************)
(* A model of oci-lm-check.py: the live-migration eligibility classifier   *)
(* check(), the report assembler collect(), the region x compartment loop  *)
(* of run() and the option handling of main().                             *)
(*                                                                         *)
(* Python str values are sequences of one-character strings, so that the   *)
(* substring tests of the source ("BM." in instance.shape, i.id in         *)
(* x.instance_id), str.split and str() are computed, not assumed.          *)
(* Python's None is the value None below; True/False/None of a nullable    *)
(* bool are the strings "True", "False", "None".                           *)
(*                                                                         *)
(* Left out: the rich progress bar (lines 242-246, 255, 257), print(r_list)*)
(* (line 128), credential loading, SDK pagination and retries.  The        *)
(* maintenance timestamp of an instance is taken to be absent (None).      *)
(***************************************************************************)
EXTENDS Integers, Sequences, FiniteSets, TLC

VARIABLES
    pc,                 \* position of the single Python thread
    argv,               \* the click options of main(): compartment, region, b
    c_list, r_list,     \* main()'s locals
    compartments, r,    \* run()'s parameters
    regions,            \* run()'s local: the regions iterated
    config,             \* run()'s config dict (only its 'region' key)
    compute_client, vcn_client,   \* the clients of the current region
    ri, ci,             \* positions of the two for loops of run()
    instances, vnic_attachments, volume_attachments,   \* collect()'s listings
    ii,                 \* iterations of collect()'s for loop begun
    instance,           \* collect()'s loop variable i, check()'s parameter
    lm,                 \* the local lm: check()'s last return value
    bv,                 \* collect()'s auxiliary volume list
    instance_table,     \* the rich Table: columns and rows
    listed,             \* history: the listings the cloud API returned so far
    calls,              \* history: remote calls, check() calls and add_row calls
    raised,             \* the exception that ended the program, or None
    printed             \* console.print(instance_table) happened

vars == <<pc, argv, c_list, r_list, compartments, r, regions, config,
          compute_client, vcn_client, ri, ci, instances, vnic_attachments,
          volume_attachments, ii, instance, lm, bv, instance_table, listed,
          calls, raised, printed>>

-----------------------------------------------------------------------------
(* Bounds of the model *)

MaxInst == 2
MaxVol == 2
MaxCount == 1
\* the instances the listings of one run return, all together
MaxListed == 5

-----------------------------------------------------------------------------
(* String literals of the source and of the modelled tenancy *)

BM_MARKER ==  \* "BM."
    <<"B","M",".">>
ARM_MARKER ==  \* "VM.Standard.A1."
    <<"V","M",".","S","t","a","n","d","a","r","d",".","A","1",".">>
PARAVIRTUALIZED ==  \* "PARAVIRTUALIZED"
    <<"P","A","R","A","V","I","R","T","U","A","L","I","Z","E","D">>
VFIO ==  \* "VFIO"
    <<"V","F","I","O">>
WINDOWS ==  \* "Windows"
    <<"W","i","n","d","o","w","s">>
WINDOWS_LOWER ==  \* "windows"
    <<"w","i","n","d","o","w","s">>
ORACLE_LINUX ==  \* "Oracle Linux"
    <<"O","r","a","c","l","e"," ","L","i","n","u","x">>
LM_BARE_METAL ==  \* "No - Bare Metal"
    <<"N","o"," ","-"," ","B","a","r","e"," ","M","e","t","a","l">>
LM_YES ==  \* "Yes"
    <<"Y","e","s">>
LM_DISABLED ==  \* "No - disabled"
    <<"N","o"," ","-"," ","d","i","s","a","b","l","e","d">>
LM_NIC_TYPE ==  \* "No (NIC type)"
    <<"N","o"," ","(","N","I","C"," ","t","y","p","e",")">>
LM_DVH ==  \* "No (DVH)"
    <<"N","o"," ","(","D","V","H",")">>
LM_ARM ==  \* "No (ARM instance)"
    <<"N","o"," ","(","A","R","M"," ","i","n","s","t","a","n","c","e",")">>
LM_DENSEIO ==  \* "No (DenseIO)"
    <<"N","o"," ","(","D","e","n","s","e","I","O",")">>
LM_GPU ==  \* "No (GPU)"
    <<"N","o"," ","(","G","P","U",")">>
LM_WINDOWS ==  \* "No (Windows)"
    <<"N","o"," ","(","W","i","n","d","o","w","s",")">>
LM_UNKNOWN ==  \* "Unknown"
    <<"U","n","k","n","o","w","n">>
TERMINATED ==  \* "TERMINATED"
    <<"T","E","R","M","I","N","A","T","E","D">>
RUNNING ==  \* "RUNNING"
    <<"R","U","N","N","I","N","G">>
STOPPED ==  \* "STOPPED"
    <<"S","T","O","P","P","E","D">>
STOPPING ==  \* "STOPPING"
    <<"S","T","O","P","P","I","N","G">>
PROVISIONING ==  \* "PROVISIONING"
    <<"P","R","O","V","I","S","I","O","N","I","N","G">>
NA ==  \* "N/A"
    <<"N","/","A">>
ALL ==  \* "ALL"
    <<"A","L","L">>
COL_COMPARTMENT ==  \* "COMPARTMENT"
    <<"C","O","M","P","A","R","T","M","E","N","T">>
COL_ID ==  \* "ID"
    <<"I","D">>
COL_NAME ==  \* "NAME"
    <<"N","A","M","E">>
COL_REGION ==  \* "REGION"
    <<"R","E","G","I","O","N">>
COL_SHAPE ==  \* "SHAPE"
    <<"S","H","A","P","E">>
COL_PRIVATE_IP ==  \* "PRIVATE IP"
    <<"P","R","I","V","A","T","E"," ","I","P">>
COL_PUBLIC_IP ==  \* "PUBLIC IP"
    <<"P","U","B","L","I","C"," ","I","P">>
COL_STATE ==  \* "STATE"
    <<"S","T","A","T","E">>
COL_NIC_TYPE ==  \* "NIC TYPE"
    <<"N","I","C"," ","T","Y","P","E">>
COL_VOLUMES ==  \* "VOLUMES"
    <<"V","O","L","U","M","E","S">>
COL_MAINTENANCE ==  \* "MAINTENANCE"
    <<"M","A","I","N","T","E","N","A","N","C","E">>
COL_LIVE_MIGRATION ==  \* "LIVE MIGRATION"
    <<"L","I","V","E"," ","M","I","G","R","A","T","I","O","N">>
SHAPE_BM_STD ==  \* "BM.Standard2.52"
    <<"B","M",".","S","t","a","n","d","a","r","d","2",".","5","2">>
SHAPE_BM_ARM ==  \* "BM.Standard.A1.160"
    <<"B","M",".","S","t","a","n","d","a","r","d",".","A","1",".","1","6","0">>
SHAPE_VM_FLEX ==  \* "VM.Standard.E4.Flex"
    <<"V","M",".","S","t","a","n","d","a","r","d",".","E","4",".","F","l","e","x">>
SHAPE_VM_ARM ==  \* "VM.Standard.A1.Flex"
    <<"V","M",".","S","t","a","n","d","a","r","d",".","A","1",".","F","l","e","x">>
SHAPE_VM_DENSE ==  \* "VM.DenseIO2.8"
    <<"V","M",".","D","e","n","s","e","I","O","2",".","8">>
US_ASHBURN_1 ==  \* "us-ashburn-1"
    <<"u","s","-","a","s","h","b","u","r","n","-","1">>
US_PHOENIX_1 ==  \* "us-phoenix-1"
    <<"u","s","-","p","h","o","e","n","i","x","-","1">>
IAD ==  \* "iad"
    <<"i","a","d">>
PHX ==  \* "phx"
    <<"p","h","x">>
OCID_COMPARTMENT_A ==  \* "ocid1.c.a"
    <<"o","c","i","d","1",".","c",".","a">>
OCID_COMPARTMENT_B ==  \* "ocid1.c.b"
    <<"o","c","i","d","1",".","c",".","b">>
NAME_PROD ==  \* "prod"
    <<"p","r","o","d">>
NAME_DEV ==  \* "dev"
    <<"d","e","v">>
OCID_INSTANCE ==  \* "ocid1.i."
    <<"o","c","i","d","1",".","i",".">>
OCID_VNIC ==  \* "ocid1.vnic."
    <<"o","c","i","d","1",".","v","n","i","c",".">>
OCID_VOLUME ==  \* "ocid1.vol."
    <<"o","c","i","d","1",".","v","o","l",".">>
OCID_DVH ==  \* "ocid1.dvh.1"
    <<"o","c","i","d","1",".","d","v","h",".","1">>
VM_NAME ==  \* "vm-"
    <<"v","m","-">>
IP_PRIVATE ==  \* "10.0.0."
    <<"1","0",".","0",".","0",".">>
IP_PUBLIC ==  \* "129.1.1."
    <<"1","2","9",".","1",".","1",".">>
IMG_LINUX ==  \* "img-linux"
    <<"i","m","g","-","l","i","n","u","x">>
IMG_WINDOWS ==  \* "img-windows"
    <<"i","m","g","-","w","i","n","d","o","w","s">>
IMG_WINDOWS_LOWER ==  \* "img-windows-lc"
    <<"i","m","g","-","w","i","n","d","o","w","s","-","l","c">>
IMG_GONE ==  \* "img-gone"
    <<"i","m","g","-","g","o","n","e">>

-----------------------------------------------------------------------------
(* Python values and str operations *)

None == <<"<None>">>
NoException == "None"
EMPTY == <<>>
COMMA == ","
Digit == <<"0","1","2","3","4","5","6","7","8","9">>

\* bool(x) of an optional str: None and "" are falsy
Truthy(x) == x # None /\ Len(x) > 0

\* needle in hay, for two str
In(needle, hay) ==
    \E k \in 0..(Len(hay) - Len(needle)) :
        SubSeq(hay, k + 1, k + Len(needle)) = needle

\* str(n) of an int n >= 0
RECURSIVE str(_)
str(n) == IF n < 10 THEN <<Digit[n + 1]>>
          ELSE str(n \div 10) \o <<Digit[(n % 10) + 1]>>

\* s.split(",")
RECURSIVE split(_)
split(s) ==
    IF \A k \in 1..Len(s) : s[k] # COMMA THEN <<s>>
    ELSE LET k == CHOOSE j \in 1..Len(s) :
                      s[j] = COMMA /\ \A h \in 1..(j - 1) : s[h] # COMMA
         IN <<SubSeq(s, 1, k - 1)>> \o split(SubSeq(s, k + 1, Len(s)))

\* the concatenation of a list of lists
RECURSIVE Flatten(_)
Flatten(ss) == IF ss = <<>> THEN <<>> ELSE Head(ss) \o Flatten(Tail(ss))

\* [x for x in s if x.instance_id contains id]
RECURSIVE attached_to(_, _)
attached_to(id, attachments) ==
    IF attachments = <<>> THEN <<>>
    ELSE (IF In(id, Head(attachments).instance_id) THEN <<Head(attachments)>> ELSE <<>>)
         \o attached_to(id, Tail(attachments))

NoCall == <<>>
\* a call made on behalf of the instance with id subject
Call(op, id, subject, client, ok) ==
    [op |-> op, id |-> id, subject |-> subject, region |-> client.region, ok |-> ok]
LocalClient == [region |-> None]

-----------------------------------------------------------------------------
(* The image service behind compute_client.get_image *)

ImageIds == {IMG_LINUX, IMG_WINDOWS, IMG_WINDOWS_LOWER, IMG_GONE}

\* the image, or a ServiceError for an image that can no longer be read
get_image(image_id) ==
    CASE image_id = IMG_LINUX -> [raised |-> NoException, data |-> [operating_system |-> ORACLE_LINUX]]
      [] image_id = IMG_WINDOWS -> [raised |-> NoException, data |-> [operating_system |-> WINDOWS]]
      [] image_id = IMG_WINDOWS_LOWER -> [raised |-> NoException, data |-> [operating_system |-> WINDOWS_LOWER]]
      [] OTHER -> [raised |-> "ServiceError", data |-> None]

-----------------------------------------------------------------------------
(* check(): lines 132-175 *)

Return(value) == [lm |-> value, calls |-> NoCall, raised |-> NoException]

is_not_False_truthy(flag) == flag = "True"
\* x is not False
is_not_False(flag) == flag # "False"

\* lines 170-175, lm still being "Yes"
check_image(inst, client, value) ==
    LET image == get_image(inst.image_id)
        call == <<Call("get_image", inst.image_id, inst.id, client, image.raised = NoException)>>
    IN IF image.raised # NoException
       THEN [lm |-> None, calls |-> call, raised |-> image.raised]
       ELSE IF image.data.operating_system = WINDOWS
            THEN [lm |-> LM_WINDOWS, calls |-> call, raised |-> NoException]
            ELSE [lm |-> value, calls |-> call, raised |-> NoException]

\* lines 152-175
check_rest(inst, client, value) ==
    IF Truthy(inst.dedicated_vm_host_id) THEN Return(LM_DVH)
    ELSE IF In(ARM_MARKER, inst.shape) THEN Return(LM_ARM)
    ELSE IF inst.shape_config.local_disks > 0 THEN Return(LM_DENSEIO)
    ELSE IF inst.shape_config.gpus > 0 THEN Return(LM_GPU)
    ELSE check_image(inst, client, value)

\* a variant that resolves the image before looking at the instance
check_image_first(inst, client) ==
    LET img == check_image(inst, client, LM_YES)
    IN IF img.raised # NoException THEN img
       ELSE IF In(BM_MARKER, inst.shape)
            THEN [img EXCEPT !.lm = LM_BARE_METAL]
            ELSE IF inst.launch_options.network_type = PARAVIRTUALIZED
                 THEN IF is_not_False(inst.availability_config.is_live_migration_preferred)
                      THEN [check_rest(inst, client, LM_YES) EXCEPT !.calls = img.calls]
                      ELSE [img EXCEPT !.lm = LM_DISABLED]
                 ELSE [img EXCEPT !.lm = LM_NIC_TYPE]

\* a variant that turns a failed image lookup into the verdict "Unknown"
check_unknown(inst, client) ==
    LET res == IF In(BM_MARKER, inst.shape) THEN Return(LM_BARE_METAL)
               ELSE IF inst.launch_options.network_type = PARAVIRTUALIZED
                    THEN IF is_not_False(inst.availability_config.is_live_migration_preferred)
                         THEN check_rest(inst, client, LM_YES)
                         ELSE Return(LM_DISABLED)
                    ELSE Return(LM_NIC_TYPE)
    IN IF res.raised # NoException THEN [res EXCEPT !.lm = LM_UNKNOWN, !.raised = NoException] ELSE res

check(inst, client) ==
    IF In(BM_MARKER, inst.shape) THEN Return(LM_BARE_METAL)
    ELSE IF inst.launch_options.network_type = PARAVIRTUALIZED
         THEN IF is_not_False(inst.availability_config.is_live_migration_preferred)
              THEN check_rest(inst, client, LM_YES)
              ELSE Return(LM_DISABLED)
         ELSE Return(LM_NIC_TYPE)

-----------------------------------------------------------------------------
(* The tenancy: regions, compartments, and what the compute API lists *)

Region(name) == [region_name |-> name]
\* identity.list_region_subscriptions, in the order the API returns them
get_regions == <<Region(US_PHOENIX_1), Region(US_ASHBURN_1)>>

RegionKey(name) == IF name = US_ASHBURN_1 THEN IAD ELSE PHX

Compartment(id, name) == [id |-> id, name |-> name]
CompartmentA == Compartment(OCID_COMPARTMENT_A, NAME_PROD)
CompartmentB == Compartment(OCID_COMPARTMENT_B, NAME_DEV)
\* identity.list_compartments of the tenancy
AccessibleCompartments == <<CompartmentA, CompartmentB>>

\* the part of an OCID that tells resources apart: region key, compartment, position
Suffix(region, comp, k) ==
    RegionKey(region.region_name) \o <<".", comp.id[Len(comp.id)], ".", Digit[k + 1]>>

InstanceId(region, comp, k) == OCID_INSTANCE \o Suffix(region, comp, k)

\* an oci.core.models.Instance
Instance(region, comp, k, kind) ==
    [id |-> InstanceId(region, comp, k),
     display_name |-> VM_NAME \o <<Digit[k + 1]>>,
     region |-> RegionKey(region.region_name),
     shape |-> kind.shape,
     lifecycle_state |-> kind.lifecycle_state,
     launch_options |-> [network_type |-> kind.network_type],
     availability_config |-> [is_live_migration_preferred |-> kind.preferred],
     dedicated_vm_host_id |-> kind.dedicated_vm_host_id,
     shape_config |-> [local_disks |-> kind.local_disks, gpus |-> kind.gpus],
     image_id |-> kind.image_id,
     time_maintenance_reboot_due |-> None]

\* the VNIC attachments of one instance, the last one first
RECURSIVE VnicAttachments(_, _, _)
VnicAttachments(suffix, id, n) ==
    IF n = 0 THEN <<>>
    ELSE <<[instance_id |-> id, vnic_id |-> OCID_VNIC \o suffix \o <<".", Digit[n + 1]>>]>>
         \o VnicAttachments(suffix, id, n - 1)

\* the volume attachments of one instance, the last one first
RECURSIVE VolumeAttachments(_, _, _)
VolumeAttachments(suffix, id, n) ==
    IF n = 0 THEN <<>>
    ELSE <<[instance_id |-> id, volume_id |-> OCID_VOLUME \o suffix \o <<".", Digit[n + 1]>>]>>
         \o VolumeAttachments(suffix, id, n - 1)

\* the attachment lists of a compartment: those of the last instance first
RECURSIVE VnicAttachmentList(_, _, _, _)
VnicAttachmentList(region, comp, kinds, k) ==
    IF k = 0 THEN <<>>
    ELSE VnicAttachments(Suffix(region, comp, k), InstanceId(region, comp, k), kinds[k].vnics)
         \o VnicAttachmentList(region, comp, kinds, k - 1)

RECURSIVE VolumeAttachmentList(_, _, _, _)
VolumeAttachmentList(region, comp, kinds, k) ==
    IF k = 0 THEN <<>>
    ELSE VolumeAttachments(Suffix(region, comp, k), InstanceId(region, comp, k), kinds[k].volumes)
         \o VolumeAttachmentList(region, comp, kinds, k - 1)

\* what list_instances, list_vnic_attachments and list_volume_attachments return
Listing(region, comp, kinds) ==
    [instances |-> [k \in 1..Len(kinds) |-> Instance(region, comp, k, kinds[k])],
     vnic_attachments |-> VnicAttachmentList(region, comp, kinds, Len(kinds)),
     volume_attachments |-> VolumeAttachmentList(region, comp, kinds, Len(kinds))]

\* vcn_client.get_vnic: the primary VNIC (.1) has a public address
get_vnic(vnic_id) ==
    LET k == vnic_id[Len(vnic_id) - 2]
        n == vnic_id[Len(vnic_id)]
    IN [private_ip |-> IP_PRIVATE \o <<k, n>>,
        public_ip |-> IF n = "1" THEN IP_PUBLIC \o <<k>> ELSE None]

Eligible == [shape |-> SHAPE_VM_FLEX, lifecycle_state |-> RUNNING,
             network_type |-> PARAVIRTUALIZED, preferred |-> "None",
             dedicated_vm_host_id |-> None, local_disks |-> 0, gpus |-> 0,
             image_id |-> IMG_LINUX, vnics |-> 1, volumes |-> 0]

VnicCounts == {0, 1, 2}

\* the instances of the report assembler's cases
CollectKinds ==
    {[Eligible EXCEPT !.image_id = img, !.vnics = nv, !.volumes = nb] :
        img \in {IMG_LINUX, IMG_GONE}, nv \in VnicCounts, nb \in 0..MaxVol}
    \cup {[Eligible EXCEPT !.lifecycle_state = s, !.volumes = 1] :
        s \in {STOPPED, STOPPING, TERMINATED, PROVISIONING}}
    \cup {[Eligible EXCEPT !.shape = SHAPE_BM_STD, !.image_id = IMG_GONE]}

\* the instances of a whole run
RunKinds ==
    {Eligible, [Eligible EXCEPT !.image_id = IMG_GONE],
     [Eligible EXCEPT !.lifecycle_state = TERMINATED]}

SeqsUpTo(S, n) == UNION {[1..m -> S] : m \in 0..n}

-----------------------------------------------------------------------------
(* The rich Table: lines 223-235 and Table.add_row *)

Columns == <<COL_COMPARTMENT, COL_ID, COL_NAME, COL_REGION, COL_SHAPE,
             COL_PRIVATE_IP, COL_PUBLIC_IP, COL_STATE, COL_NIC_TYPE,
             COL_VOLUMES, COL_MAINTENANCE, COL_LIVE_MIGRATION>>

Table == [columns |-> Columns, rows |-> <<>>]

\* cells are laid under the columns from the left; a missing or None cell is ""
Row(table, cells) ==
    [c \in 1..Len(table.columns) |->
        IF c > Len(cells) \/ cells[c] = None THEN EMPTY ELSE cells[c]]

add_row_first(table, cells) ==
    [table EXCEPT !.rows = <<Row(table, cells)>> \o @]

add_row(table, cells) ==
    [table EXCEPT !.rows = Append(@, Row(table, cells))]

\* the cell of a row under a column header
Cell(row, header) == row[CHOOSE c \in 1..Len(Columns) : Columns[c] = header]

-----------------------------------------------------------------------------
(* collect(): the body of its for loop, lines 185-215 *)

lifecycle_branch_else(i) ==
    IF i.lifecycle_state = RUNNING THEN "running" ELSE "stopped"

\* which branch of lines 186-215 an instance takes
lifecycle_branch(i) ==
    IF i.lifecycle_state = TERMINATED THEN "continue"
    ELSE IF i.lifecycle_state = RUNNING THEN "running"
    ELSE IF i.lifecycle_state = STOPPED THEN "stopped"
    ELSE IF i.lifecycle_state = STOPPING THEN "stopping"
    ELSE "none"

has_vnic_always(va) == TRUE
\* line 197
has_vnic(va) == Len(va) > 0

\* lines 201-203: the whole list bva is appended once per attachment
aux_volumes(bva) == [a \in 1..Len(bva) |-> bva]

volumes_cell_aux(bva, aux) == str(Len(Flatten(aux)))
\* line 207: str(len(bva))
volumes_cell(bva, aux) == str(Len(bva))

Outcome(table, made, exc, verdict, aux) ==
    [instance_table |-> table, calls |-> made, raised |-> exc, lm |-> verdict, bv |-> aux]

\* lines 189-207; lm0 is the value lm has from earlier iterations
collect_running(i, compartment, table, compute, vcn, vnic_att, volume_att, lm0) ==
    LET va == attached_to(i.id, vnic_att)
        bva == attached_to(i.id, volume_att)
    IN IF has_vnic(va)
       THEN LET vs == [k \in 1..Len(va) |-> get_vnic(va[k].vnic_id)]
                fetched == [k \in 1..Len(va) |-> Call("get_vnic", va[k].vnic_id, i.id, vcn, TRUE)]
                aux == aux_volumes(bva)
                res == check(i, compute)
                made == fetched \o <<Call("check", i.id, i.id, compute, res.raised = NoException)>>
                        \o res.calls
            IN IF res.raised # NoException
               THEN Outcome(table, made, res.raised, lm0, aux)
               ELSE IF Len(vs) = 0
               THEN Outcome(table, made, "IndexError", res.lm, aux)
               ELSE Outcome(
                       add_row(table, <<compartment.name, i.id, i.display_name, i.region,
                                        i.shape, vs[1].private_ip, vs[1].public_ip,
                                        i.lifecycle_state, i.launch_options.network_type,
                                        volumes_cell(bva, aux), i.time_maintenance_reboot_due,
                                        res.lm>>),
                       made \o <<Call("add_row", i.id, i.id, LocalClient, TRUE)>>,
                       NoException, res.lm, aux)
       ELSE Outcome(table, NoCall, NoException, lm0, <<>>)

\* lines 209-215
collect_stopped(i, table, lm0, bv0) ==
    Outcome(add_row(table, <<i.id, i.display_name, i.shape, EMPTY, EMPTY,
                             i.lifecycle_state, i.launch_options.network_type,
                             NA, NA, NA>>),
            <<Call("add_row", i.id, i.id, LocalClient, TRUE)>>, NoException, lm0, bv0)

\* lines 186-215: one iteration of the for loop
collect_instance(i, compartment, table, compute, vcn, vnic_att, volume_att, lm0, bv0) ==
    LET branch == lifecycle_branch(i)
    IN IF branch = "running"
       THEN collect_running(i, compartment, table, compute, vcn, vnic_att, volume_att, lm0)
       ELSE IF branch \in {"stopped", "stopping"}
       THEN collect_stopped(i, table, lm0, bv0)
       ELSE Outcome(table, NoCall, NoException, lm0, bv0)

\* the locals of collect() after the k-th iteration, which had the outcome out
after_iteration(acc, k, i, out) ==
    [instance_table |-> out.instance_table,
     calls |-> acc.calls \o out.calls,
     raised |-> out.raised,
     lm |-> out.lm, bv |-> out.bv,
     ii |-> k, instance |-> i]

\* lines 185-217: the for loop from its k-th iteration on, until it ends or raises;
\* ii is the number of iterations begun
RECURSIVE collect_loop(_, _, _, _, _, _, _, _)
collect_loop(k, acc, insts, compartment, compute, vcn, vnic_att, volume_att) ==
    IF k > Len(insts) \/ acc.raised # NoException THEN acc
    ELSE collect_loop(k + 1,
                      after_iteration(acc, k, insts[k],
                          collect_instance(insts[k], compartment, acc.instance_table, compute,
                                           vcn, vnic_att, volume_att, acc.lm, acc.bv)),
                      insts, compartment, compute, vcn, vnic_att, volume_att)

-----------------------------------------------------------------------------
(* collect(): lines 177-217 *)

ThisRegion == regions[ri]
ThisCompartment == compartments[ci]

\* lines 177-217: the listings of the compartment as the cloud returns them,
\* then the for loop over the instances, then the return to line 257 of run()
Collect(Kinds) ==
    /\ pc = "collect"
    /\ \E kinds \in SeqsUpTo(Kinds, MaxInst) :
          /\ Len(Flatten([k \in 1..Len(listed) |-> listed[k].instances])) + Len(kinds)
                <= MaxListed
          /\ \E listing \in {Listing(ThisRegion, ThisCompartment, kinds)} :
             \E out \in {collect_loop(1,
                           [instance_table |-> instance_table, calls |-> calls,
                            raised |-> NoException, lm |-> lm, bv |-> bv,
                            ii |-> 0, instance |-> instance],
                           listing.instances, ThisCompartment, compute_client, vcn_client,
                           listing.vnic_attachments, listing.volume_attachments)} :
                /\ instances' = listing.instances
                /\ vnic_attachments' = listing.vnic_attachments
                /\ volume_attachments' = listing.volume_attachments
                /\ listed' = Append(listed,
                       [region |-> ThisRegion.region_name,
                        compartment |-> ThisCompartment.id,
                        compute_region |-> compute_client.region,
                        vcn_region |-> vcn_client.region,
                        instances |-> listing.instances])
                /\ instance_table' = out.instance_table
                /\ calls' = out.calls
                /\ lm' = out.lm
                /\ bv' = out.bv
                /\ ii' = out.ii
                /\ instance' = out.instance
                /\ raised' = out.raised
                /\ pc' = IF out.raised # NoException THEN "raised" ELSE "compartments"
    /\ UNCHANGED <<argv, c_list, r_list, compartments, r, regions, config,
                   compute_client, vcn_client, ri, ci, printed>>

-----------------------------------------------------------------------------
(* run(): lines 219-259 *)

\* oci.core.ComputeClient(config), oci.core.VirtualNetworkClient(config):
\* a client keeps the region the config names when it is created
Client(cfg) == [region |-> cfg.region]

region_swap_once(cfg, region) ==
    IF cfg.region = None THEN [cfg EXCEPT !.region = region.region_name] ELSE cfg

\* line 250
region_swap(cfg, region) == [cfg EXCEPT !.region = region.region_name]

\* lines 220-246
RunStart ==
    /\ pc = "run"
    /\ instance_table' = Table
    /\ regions' = IF Len(r) = 0 THEN get_regions ELSE r
    /\ ri' = 0
    /\ pc' = "regions"
    /\ UNCHANGED <<argv, c_list, r_list, compartments, r, config, compute_client,
                   vcn_client, ci, instances, vnic_attachments, volume_attachments,
                   ii, instance, lm, bv, listed, calls, raised, printed>>

\* lines 249-252: the next region, or the end of the outer loop
RunRegion ==
    /\ pc = "regions"
    /\ IF ri < Len(regions)
       THEN /\ ri' = ri + 1
            /\ config' = region_swap(config, regions[ri + 1])
            /\ compute_client' = Client(config')
            /\ vcn_client' = Client(config')
            /\ ci' = 0
            /\ pc' = "compartments"
       ELSE /\ pc' = "print"
            /\ UNCHANGED <<ri, config, compute_client, vcn_client, ci>>
    /\ UNCHANGED <<argv, c_list, r_list, compartments, r, regions, instances,
                   vnic_attachments, volume_attachments, ii, instance, lm, bv,
                   instance_table, listed, calls, raised, printed>>

\* lines 254-256: the next compartment, or the end of the inner loop
RunCompartment ==
    /\ pc = "compartments"
    /\ IF ci < Len(compartments)
       THEN ci' = ci + 1 /\ pc' = "collect"
       ELSE ci' = ci /\ pc' = "regions"
    /\ UNCHANGED <<argv, c_list, r_list, compartments, r, regions, config,
                   compute_client, vcn_client, ri, instances, vnic_attachments,
                   volume_attachments, ii, instance, lm, bv, instance_table,
                   listed, calls, raised, printed>>

\* line 259
RunPrint ==
    /\ pc = "print"
    /\ printed' = TRUE
    /\ pc' = "done"
    /\ UNCHANGED <<argv, c_list, r_list, compartments, r, regions, config,
                   compute_client, vcn_client, ri, ci, instances, vnic_attachments,
                   volume_attachments, ii, instance, lm, bv, instance_table,
                   listed, calls, raised>>

-----------------------------------------------------------------------------
(* main() and the selectors: lines 25-60, 80-130 *)

\* the characters of the modelled names in ASCII order, for list.sort
ASCII == <<"-", ".", "0", "1", "2", "3", "4", "5", "6", "7", "8", "9",
           "A", "L", "a", "b", "c", "d", "e", "h", "i", "n", "o", "p",
           "r", "s", "u", "x">>
ord(c) == CHOOSE k \in 1..Len(ASCII) : ASCII[k] = c

\* s < t for two str
RECURSIVE str_less(_, _)
str_less(s, t) ==
    IF t = <<>> THEN FALSE
    ELSE IF s = <<>> THEN TRUE
    ELSE IF s[1] # t[1] THEN ord(s[1]) < ord(t[1])
    ELSE str_less(Tail(s), Tail(t))

\* list.sort(key=lambda x: x.region_name), a stable insertion sort
RECURSIVE insert_by_name(_, _)
insert_by_name(x, sorted) ==
    IF sorted = <<>> THEN <<x>>
    ELSE IF str_less(x.region_name, Head(sorted).region_name)
         THEN <<x>> \o sorted
         ELSE <<Head(sorted)>> \o insert_by_name(x, Tail(sorted))

RECURSIVE sort_by_name(_)
sort_by_name(list) ==
    IF list = <<>> THEN <<>>
    ELSE insert_by_name(list[Len(list)], sort_by_name(SubSeq(list, 1, Len(list) - 1)))

\* the entries of a list at the positions S, in the list's order
RECURSIVE Pick(_, _)
Pick(list, S) ==
    IF list = <<>> THEN <<>>
    ELSE Pick(SubSeq(list, 1, Len(list) - 1), S)
         \o (IF Len(list) \in S THEN <<list[Len(list)]>> ELSE <<>>)

\* what checkboxlist_dialog(values=...).run() can return: the ticked entries
Ticked(values) == {Pick(values, S) : S \in SUBSET (1..Len(values))}

\* lines 27-30: the entries shown
compartments_shown(accessible) == <<Compartment(ALL, ALL)>> \o accessible
\* lines 38-41
compartments_selector(accessible, results) ==
    IF \E k \in 1..Len(results) : results[k].name = ALL THEN accessible ELSE results

\* lines 45-49: the entries shown
regions_shown(subscribed) == <<Region(ALL)>> \o sort_by_name(subscribed)
\* lines 57-60
region_selector(subscribed, results) ==
    IF \E k \in 1..Len(results) : results[k].region_name = ALL THEN subscribed ELSE results

\* identity.get_compartment(compartment_id=c)
get_compartment(c) ==
    IF \E k \in 1..Len(AccessibleCompartments) : AccessibleCompartments[k].id = c
    THEN [raised |-> NoException,
          data |-> <<AccessibleCompartments[
                        CHOOSE k \in 1..Len(AccessibleCompartments) :
                            AccessibleCompartments[k].id = c]>>]
    ELSE [raised |-> "ServiceError", data |-> <<>>]

\* lines 80-86: the body of the first def get_compartments(profile)
get_compartments_profile == [raised |-> NoException, data |-> AccessibleCompartments]

\* lines 88-96: the body of the second def get_compartments(profile, compartment)
get_compartments_by_id(compartment) ==
    LET ids == split(compartment)
        got == [k \in 1..Len(ids) |-> get_compartment(ids[k])]
    IN IF \E k \in 1..Len(ids) : got[k].raised # NoException
       THEN [raised |-> "ServiceError", data |-> <<>>]
       ELSE [raised |-> NoException, data |-> Flatten([k \in 1..Len(ids) |-> got[k].data])]

\* the two def statements of the name get_compartments, in source order
get_compartments_defs ==
    <<[line |-> 80, params |-> <<"profile">>],
      [line |-> 88, params |-> <<"profile", "compartment">>]>>

\* a module-level name is bound to the def executed last
get_compartments_bound == get_compartments_defs[Len(get_compartments_defs)]

\* the call get_compartments(*args)
get_compartments(args) ==
    IF Len(args) # Len(get_compartments_bound.params)
    THEN [raised |-> "TypeError", data |-> <<>>]
    ELSE IF Len(args) = 1 THEN get_compartments_profile
    ELSE get_compartments_by_id(args[2])

PROFILE == <<"D", "E", "F", "A", "U", "L", "T">>

\* lines 105-115
MainCompartments ==
    /\ pc = "main"
    /\ IF ~Truthy(argv.compartment) /\ ~argv.b
       THEN LET got == get_compartments(<<PROFILE>>)
            IN IF got.raised # NoException
               THEN c_list' = <<>> /\ raised' = got.raised /\ pc' = "raised"
               ELSE /\ \E results \in Ticked(compartments_shown(got.data)) :
                          c_list' = compartments_selector(got.data, results)
                    /\ raised' = raised /\ pc' = "main_regions"
       ELSE IF Truthy(argv.compartment)
       THEN LET got == get_compartments(<<PROFILE, argv.compartment>>)
            IN /\ c_list' = got.data
               /\ raised' = got.raised
               /\ pc' = IF got.raised # NoException THEN "raised" ELSE "main_regions"
       ELSE LET got == get_compartments(<<PROFILE>>)
            IN /\ c_list' = got.data
               /\ raised' = got.raised
               /\ pc' = IF got.raised # NoException THEN "raised" ELSE "main_regions"
    /\ UNCHANGED <<argv, r_list, compartments, r, regions, config, compute_client,
                   vcn_client, ri, ci, instances, vnic_attachments, volume_attachments,
                   ii, instance, lm, bv, instance_table, listed, calls, printed>>

\* lines 124-126
regions_named(region) ==
    LET names == split(region) IN [k \in 1..Len(names) |-> Region(names[k])]

\* lines 106, 117-126
MainRegions ==
    /\ pc = "main_regions"
    /\ \E results \in Ticked(regions_shown(get_regions)) :
          LET selected == IF ~Truthy(argv.region) /\ ~argv.b
                          THEN region_selector(get_regions, results)
                          ELSE <<>>
          IN r_list' = IF Truthy(argv.region)
                       THEN selected \o regions_named(argv.region)
                       ELSE selected
    /\ pc' = "main_run"
    /\ UNCHANGED <<argv, c_list, compartments, r, regions, config, compute_client,
                   vcn_client, ri, ci, instances, vnic_attachments, volume_attachments,
                   ii, instance, lm, bv, instance_table, listed, calls, raised, printed>>

\* line 130: run(c_list, profile, r_list) is entered
MainRun ==
    /\ pc = "main_run"
    /\ compartments' = c_list
    /\ r' = r_list
    /\ pc' = "run"
    /\ UNCHANGED <<argv, c_list, r_list, regions, config, compute_client, vcn_client,
                   ri, ci, instances, vnic_attachments, volume_attachments, ii,
                   instance, lm, bv, instance_table, listed, calls, raised, printed>>

-----------------------------------------------------------------------------
(* The call of check() on its own *)

CheckCall ==
    /\ pc = "check"
    /\ LET res == check(instance, compute_client)
       IN /\ lm' = res.lm
          /\ calls' = calls \o <<Call("check", instance.id, instance.id, compute_client,
                                      res.raised = NoException)>> \o res.calls
          /\ raised' = res.raised
          /\ pc' = IF res.raised # NoException THEN "raised" ELSE "checked"
    /\ UNCHANGED <<argv, c_list, r_list, compartments, r, regions, config,
                   compute_client, vcn_client, ri, ci, instances, vnic_attachments,
                   volume_attachments, ii, instance, bv, instance_table, listed,
                   printed>>

-----------------------------------------------------------------------------
(* Initial states and specifications *)

NoArgv == [compartment |-> None, region |-> None, b |-> FALSE]
\* the config file names the home region
ConfigFile == [region |-> US_ASHBURN_1]

Idle ==
    /\ argv = NoArgv /\ c_list = <<>> /\ r_list = <<>>
    /\ instances = <<>> /\ vnic_attachments = <<>> /\ volume_attachments = <<>>
    /\ ii = 0 /\ lm = None /\ bv = <<>>
    /\ listed = <<>> /\ calls = <<>> /\ raised = NoException /\ printed = FALSE

\* run(compartments, profile, r) is entered
Init ==
    /\ Idle
    /\ pc = "run"
    /\ compartments \in {<<CompartmentA, CompartmentB>>, <<CompartmentB>>}
    /\ r \in {<<>>, <<Region(US_ASHBURN_1)>>, <<Region(US_ASHBURN_1), Region(US_PHOENIX_1)>>}
    /\ regions = <<>> /\ ri = 0 /\ ci = 0
    /\ config = ConfigFile
    /\ compute_client = LocalClient /\ vcn_client = LocalClient
    /\ instance = None
    /\ instance_table = [columns |-> <<>>, rows |-> <<>>]

CollectRun == Collect(RunKinds)

Next ==
    \/ RunStart
    \/ RunRegion
    \/ RunCompartment
    \/ CollectRun
    \/ RunPrint

Spec == Init /\ [][Next]_vars

\* collect() is entered for one compartment of one region
InitCollect ==
    /\ Idle
    /\ pc = "collect"
    /\ compartments = <<CompartmentA>>
    /\ r = <<Region(US_PHOENIX_1)>>
    /\ regions = r /\ ri = 1 /\ ci = 1
    /\ config = region_swap(ConfigFile, regions[1])
    /\ compute_client = Client(config) /\ vcn_client = Client(config)
    /\ instance = None
    /\ instance_table = Table

CollectAny == Collect(CollectKinds)

NextCollect == CollectAny

SpecCollect == InitCollect /\ [][NextCollect]_vars

Shapes == {SHAPE_BM_STD, SHAPE_BM_ARM, SHAPE_VM_FLEX, SHAPE_VM_ARM, SHAPE_VM_DENSE}

\* every instance descriptor of the classifier's input space
CheckKinds ==
    [shape : Shapes, lifecycle_state : {RUNNING},
     network_type : {PARAVIRTUALIZED, VFIO}, preferred : {"True", "False", "None"},
     dedicated_vm_host_id : {None, EMPTY, OCID_DVH},
     local_disks : 0..MaxCount, gpus : 0..MaxCount,
     image_id : ImageIds, vnics : {1}, volumes : {0}]

\* check(instance, compute_client) is entered
InitCheck ==
    /\ pc = "check"
    /\ compartments = <<CompartmentA>>
    /\ r = <<Region(US_PHOENIX_1)>>
    /\ regions = r /\ ri = 1 /\ ci = 1
    /\ config = region_swap(ConfigFile, regions[1])
    /\ compute_client = Client(config) /\ vcn_client = Client(config)
    /\ instance \in {Instance(regions[1], CompartmentA, 1, kind) : kind \in CheckKinds}
    /\ instance_table = Table
    /\ instances = <<instance>> /\ ii = 1
    /\ vnic_attachments = <<>> /\ volume_attachments = <<>>
    /\ argv = NoArgv /\ c_list = <<>> /\ r_list = <<>>
    /\ lm = None /\ bv = <<>>
    /\ listed = <<>> /\ calls = <<>> /\ raised = NoException /\ printed = FALSE

NextCheck == CheckCall

SpecCheck == InitCheck /\ [][NextCheck]_vars

\* the values of --compartment_id and --regions tried
CompartmentOptions ==
    {None, EMPTY, OCID_COMPARTMENT_A, OCID_COMPARTMENT_B,
     OCID_COMPARTMENT_B \o <<COMMA>> \o OCID_COMPARTMENT_A,
     OCID_COMPARTMENT_A \o <<COMMA>>}
RegionOptions ==
    {None, EMPTY, US_PHOENIX_1, US_PHOENIX_1 \o <<COMMA>> \o US_ASHBURN_1}

\* main(compartment, region, profile, b) is entered
InitMain ==
    /\ pc = "main"
    /\ argv \in [compartment : CompartmentOptions, region : RegionOptions, b : BOOLEAN]
    /\ c_list = <<>> /\ r_list = <<>>
    /\ compartments = <<>> /\ r = <<>>
    /\ regions = <<>> /\ ri = 0 /\ ci = 0
    /\ config = ConfigFile
    /\ compute_client = LocalClient /\ vcn_client = LocalClient
    /\ instances = <<>> /\ vnic_attachments = <<>> /\ volume_attachments = <<>>
    /\ ii = 0 /\ instance = None /\ lm = None /\ bv = <<>>
    /\ instance_table = [columns |-> <<>>, rows |-> <<>>]
    /\ listed = <<>> /\ calls = <<>> /\ raised = NoException /\ printed = FALSE

NextMain ==
    \/ MainCompartments
    \/ MainRegions
    \/ MainRun

SpecMain == InitMain /\ [][NextMain]_vars

-----------------------------------------------------------------------------
(* The rules of the classifier, stated as an ordered list *)

\* rule k of the specification: whether it matches, and its verdict
Rules(inst, os) ==
    <<[matches |-> In(BM_MARKER, inst.shape), verdict |-> LM_BARE_METAL],
      [matches |-> inst.launch_options.network_type # PARAVIRTUALIZED, verdict |-> LM_NIC_TYPE],
      [matches |-> inst.availability_config.is_live_migration_preferred = "False",
       verdict |-> LM_DISABLED],
      [matches |-> inst.dedicated_vm_host_id \notin {None, EMPTY}, verdict |-> LM_DVH],
      [matches |-> In(ARM_MARKER, inst.shape), verdict |-> LM_ARM],
      [matches |-> inst.shape_config.local_disks > 0, verdict |-> LM_DENSEIO],
      [matches |-> inst.shape_config.gpus > 0, verdict |-> LM_GPU],
      [matches |-> os = WINDOWS, verdict |-> LM_WINDOWS],
      [matches |-> TRUE, verdict |-> LM_YES]>>

FirstMatch(rules) ==
    rules[CHOOSE k \in 1..Len(rules) :
              rules[k].matches /\ \A j \in 1..(k - 1) : ~rules[j].matches].verdict

\* one of the rules 1-7 matches: the image is not needed
DecidedWithoutImage(inst) == \E k \in 1..7 : Rules(inst, ORACLE_LINUX)[k].matches

CheckReturned == pc \in {"checked", "raised"}

ImageFetches == Cardinality({k \in 1..Len(calls) : calls[k].op = "get_image"})

\* C1: for every instance descriptor whose image lookup succeeds, check()
\* returns exactly one verdict, that of the first matching rule in the order
\* bare metal, NIC type, explicitly disabled (only the flag False; None and
\* True do not match), dedicated host, ARM, local disks, GPU, Windows image,
\* otherwise Yes.
C1_FirstMatchingRuleWins ==
    (CheckReturned /\ get_image(instance.image_id).raised = NoException) =>
        /\ raised = NoException
        /\ lm = FirstMatch(Rules(instance, get_image(instance.image_id).data.operating_system))

\* an instance with the flag absent, eligible in every other respect, got "Yes"
C1_Witness ==
    /\ pc = "checked"
    /\ instance.availability_config.is_live_migration_preferred = "None"
    /\ instance.dedicated_vm_host_id = EMPTY
    /\ lm = LM_YES

\* C10: one call of check() fetches the image at most once, and not at all
\* when one of the rules 1-7 matches; the verdict of such an instance is the
\* same whatever its image lookup would give, success or failure; and check()
\* leaves the instance descriptor as the caller holds it.
C10_ImageFetchedOnlyForRule8 ==
    CheckReturned =>
        /\ ImageFetches <= 1
        /\ instance = instances[ii]
        /\ DecidedWithoutImage(instance) =>
              /\ ImageFetches = 0
              /\ raised = NoException
              /\ \A img \in ImageIds :
                    /\ check([instance EXCEPT !.image_id = img], compute_client).lm = lm
                    /\ check([instance EXCEPT !.image_id = img], compute_client).raised
                          = NoException
        /\ ~DecidedWithoutImage(instance) => ImageFetches = 1

\* a GPU instance whose image can no longer be read got its verdict all the same
C10_Witness ==
    /\ pc = "checked"
    /\ instance.image_id = IMG_GONE
    /\ lm = LM_GPU
    /\ ImageFetches = 0

-----------------------------------------------------------------------------
(* Rows, their instances and the calls made for an instance *)

Rows == instance_table.rows

\* every instance the cloud listed so far, in the order it was listed
ListedInstances == Flatten([k \in 1..Len(listed) |-> listed[k].instances])

\* a row refers to an instance when one of its cells is the instance's OCID
RefersTo(row, inst) == \E c \in 1..Len(row) : row[c] = inst.id
RowsOf(inst) == {k \in 1..Len(Rows) : RefersTo(Rows[k], inst)}

\* the calls made on behalf of an instance
CallsFor(inst, ops) == {k \in 1..Len(calls) : calls[k].subject = inst.id /\ calls[k].op \in ops}
RemoteOrCheck == {"get_vnic", "get_image", "check"}

\* the instances of the last listing the for loop has dealt with
Processed == {instances[k] : k \in 1..ii}

\* the attachment records that belong to an instance
Belonging(attachments, inst) ==
    {k \in 1..Len(attachments) : attachments[k].instance_id = inst.id}

\* the number a decimal numeral denotes
RECURSIVE decimal(_)
decimal(text) ==
    IF text = <<>> THEN 0
    ELSE 10 * decimal(SubSeq(text, 1, Len(text) - 1))
         + ((CHOOSE d \in 1..10 : Digit[d] = text[Len(text)]) - 1)

\* C3: for a STOPPED or STOPPING instance collect() calls neither check() nor
\* get_vnic nor get_image, and emits exactly one row whose PRIVATE IP, PUBLIC
\* IP, VOLUMES and LIVE MIGRATION cells are "N/A" and whose other cells stand
\* under their own column headers.
C3_StoppedRowHoldsNA ==
    \A inst \in Processed :
        inst.lifecycle_state \in {STOPPED, STOPPING} =>
            /\ CallsFor(inst, RemoteOrCheck) = {}
            /\ Cardinality(RowsOf(inst)) = 1
            /\ \A k \in RowsOf(inst) :
                  /\ Cell(Rows[k], COL_PRIVATE_IP) = NA
                  /\ Cell(Rows[k], COL_PUBLIC_IP) = NA
                  /\ Cell(Rows[k], COL_VOLUMES) = NA
                  /\ Cell(Rows[k], COL_LIVE_MIGRATION) = NA
                  /\ Cell(Rows[k], COL_ID) = inst.id
                  /\ Cell(Rows[k], COL_NAME) = inst.display_name
                  /\ Cell(Rows[k], COL_SHAPE) = inst.shape
                  /\ Cell(Rows[k], COL_STATE) = inst.lifecycle_state
                  /\ Cell(Rows[k], COL_NIC_TYPE) = inst.launch_options.network_type

\* the part of C3 the code does satisfy, and the row it emits in fact
StoppedRowAsEmitted ==
    \A inst \in Processed :
        inst.lifecycle_state \in {STOPPED, STOPPING} =>
            /\ CallsFor(inst, RemoteOrCheck) = {}
            /\ Cardinality(RowsOf(inst)) = 1
            /\ \A k \in RowsOf(inst) :
                  Rows[k] = <<inst.id, inst.display_name, inst.shape, EMPTY, EMPTY,
                              inst.lifecycle_state, inst.launch_options.network_type,
                              NA, NA, NA, EMPTY, EMPTY>>

\* C5: a RUNNING instance without a VNIC attachment in the compartment's
\* list gets no row, no check() call and no remote call, raises nothing, and
\* the loop goes on with the next instance.
C5_RunningWithoutVnicIsSkipped ==
    \A k \in 1..ii :
        (/\ instances[k].lifecycle_state = RUNNING
         /\ Belonging(vnic_attachments, instances[k]) = {}) =>
            /\ RowsOf(instances[k]) = {}
            /\ CallsFor(instances[k], RemoteOrCheck \cup {"add_row"}) = {}
            /\ k = ii => (raised = NoException /\ pc = "compartments")

\* a RUNNING instance without VNIC was passed over and the next one got its row
C5_Witness ==
    /\ pc = "compartments" /\ ii = 2
    /\ instances[1].lifecycle_state = RUNNING
    /\ Belonging(vnic_attachments, instances[1]) = {}
    /\ RowsOf(instances[2]) # {}

\* C8: in every row of a RUNNING instance the VOLUMES cell is the number of
\* volume-attachment records of the compartment that belong to the instance,
\* each counted once, whatever the auxiliary list bv holds.
C8_VolumesCountsAttachmentsOnce ==
    \A inst \in Processed :
        inst.lifecycle_state = RUNNING =>
            \A k \in RowsOf(inst) :
                decimal(Cell(Rows[k], COL_VOLUMES))
                    = Cardinality(Belonging(volume_attachments, inst))

\* an instance with two volumes: bv holds the list of both twice, the cell says 2
C8_Witness ==
    /\ pc = "compartments" /\ ii > 0
    /\ instances[ii].lifecycle_state = RUNNING
    /\ Len(bv) = 2 /\ Len(bv[1]) = 2 /\ bv[1] = bv[2]
    /\ \E k \in RowsOf(instances[ii]) : Cell(Rows[k], COL_VOLUMES) = <<"2">>

-----------------------------------------------------------------------------
(* The whole run *)

\* the k-th pair of regions x compartments, all compartments of a region first
PairRegion(k) == regions[((k - 1) \div Len(compartments)) + 1]
PairCompartment(k) == compartments[((k - 1) % Len(compartments)) + 1]
Pairs == Len(regions) * Len(compartments)

\* where the instance a row refers to stands among the listed instances
Position(row) ==
    CHOOSE p \in 1..Len(ListedInstances) : RefersTo(row, ListedInstances[p])

FailedLookups == {k \in 1..Len(calls) : calls[k].op = "get_image" /\ ~calls[k].ok}

\* C2: a failed image lookup for a RUNNING instance that reaches rule 8 is not
\* fatal: the instance still gets a row, with the verdict "Unknown", and the
\* rest of the batch is processed and the table printed.
C2_ImageFailureIsNotFatal ==
    \A k \in FailedLookups :
        /\ raised = NoException
        /\ \E row \in 1..Len(Rows) :
              /\ Cell(Rows[row], COL_ID) = calls[k].subject
              /\ Cell(Rows[row], COL_LIVE_MIGRATION) = LM_UNKNOWN
        /\ pc = "done" => (printed /\ Len(listed) = Pairs)

\* C2 as amended: a failed image lookup for a RUNNING instance that reaches
\* rule 8 is fatal: the ServiceError leaves check(), collect() and run(), it
\* is the last thing the program does, the instance gets no row, and the
\* table is not printed.  Only such a lookup ends a run this way.
C2_ImageFailureEndsRun ==
    /\ \A k \in FailedLookups :
          /\ k = Len(calls)
          /\ raised = "ServiceError" /\ pc = "raised" /\ ~printed
          /\ calls[k].subject = instances[ii].id
          /\ instances[ii].lifecycle_state = RUNNING
          /\ ~DecidedWithoutImage(instances[ii])
          /\ RowsOf(instances[ii]) = {}
    /\ raised # NoException => FailedLookups # {}

\* the lookup failed for the first of two instances, after an earlier
\* compartment had given rows: the second instance is never looked at
C2_Witness ==
    /\ pc = "raised" /\ FailedLookups # {}
    /\ Len(Rows) > 0
    /\ ii = 1 /\ Len(instances) = 2
    /\ Len(listed) < Pairs

\* C4: no row refers to a TERMINATED instance, and no VNIC lookup, image
\* lookup or check() call is made for one, whatever was listed.
C4_TerminatedNeverReported ==
    \A p \in 1..Len(ListedInstances) :
        ListedInstances[p].lifecycle_state = TERMINATED =>
            /\ RowsOf(ListedInstances[p]) = {}
            /\ CallsFor(ListedInstances[p], RemoteOrCheck \cup {"add_row"}) = {}

\* a finished run that listed a TERMINATED instance ahead of a reported one
C4_Witness ==
    /\ pc = "done" /\ printed
    /\ \E p \in 1..(Len(ListedInstances) - 1) :
          /\ ListedInstances[p].lifecycle_state = TERMINATED
          /\ RowsOf(ListedInstances[p + 1]) # {}

RowsInListingOrder ==
    /\ \A k \in 1..Len(Rows) : \E p \in 1..Len(ListedInstances) :
          RefersTo(Rows[k], ListedInstances[p])
    /\ \A j, k \in 1..Len(Rows) : j < k => Position(Rows[j]) < Position(Rows[k])
    /\ \A k \in 1..Len(listed) :
          /\ listed[k].region = PairRegion(k).region_name
          /\ listed[k].compartment = PairCompartment(k).id

RowsOnlyAppended ==
    /\ Len(Rows') >= Len(Rows)
    /\ SubSeq(instance_table'.rows, 1, Len(Rows)) = Rows

\* C7: the rows are only ever appended to; within a (region, compartment)
\* pair they stand in the order of the instance listing, the pairs are
\* visited region by region in list order, and nothing reorders or removes
\* a row once appended.
C7_RowsAppendedInListingOrder == [] RowsInListingOrder /\ [][RowsOnlyAppended]_vars

\* two regions and two compartments were reported, one of them with two rows
C7_Witness ==
    /\ pc = "done" /\ Len(listed) = 4
    /\ Len(regions) = 2 /\ Len(compartments) = 2
    /\ Len(Rows) >= 4
    /\ \E k \in 1..4 : Len(listed[k].instances) = 2 /\ listed[k].instances[1].lifecycle_state = TERMINATED

-----------------------------------------------------------------------------
(* main() *)

CompartmentOmitted == ~Truthy(argv.compartment) /\ ~argv.b
RegionOmitted == ~Truthy(argv.region) /\ ~argv.b

\* a selection of the entries of a list, the "ALL" entry expanded
IsSelectionOf(selection, list, shown) ==
    selection = list \/ \E S \in SUBSET (1..Len(shown)) : selection = Pick(shown, S)

\* the region half of C6, which main() does satisfy when it gets that far
RegionSelectionReachesRun ==
    (RegionOmitted /\ pc \in {"main_run", "run"}) =>
        /\ IsSelectionOf(r_list, get_regions, sort_by_name(get_regions))
        /\ \A k \in 1..Len(r_list) : r_list[k].region_name # ALL
        /\ pc = "run" => r = r_list

\* C6: without compartment ids and without the batch switch, main() loads the
\* accessible compartments, shows the multi-select and hands run() the
\* user's selection, "ALL" expanded to every loaded compartment and never
\* passed on; likewise for the regions when the region option is omitted;
\* no error is raised on the way to run().
C6_InteractiveSelectionReachesRun ==
    /\ CompartmentOmitted =>
          /\ raised = NoException
          /\ pc \in {"main_regions", "main_run", "run"} =>
                /\ IsSelectionOf(c_list, AccessibleCompartments, AccessibleCompartments)
                /\ \A k \in 1..Len(c_list) : c_list[k].name # ALL
          /\ pc = "run" => compartments = c_list
    /\ RegionSelectionReachesRun

=============================================================================
